---- MODULE Spec2Model ----
(***************************************************************************)
(* Slot allocation and collision resolution of the image inserter          *)
(* (src/imgins.py: SlidePositionTracker, PPTImageInserter) and of the JSON  *)
(* mapping generator (src/doc_json.py: PositionManager, JSONGenerator).     *)
(*                                                                         *)
(* Lengths are in tenths of an inch, so 3.0 in = 30 and 2.5 in = 25.        *)
(***************************************************************************)
EXTENDS Integers, Sequences, FiniteSets, Bags, TLC

\* ------------------------------------------------------------- bounds
\* slides of the presentation that is loaded
MaxInitSlides == 2
\* positions marked by the scan plus placements taken in one run of the inserter
\* (a run takes one placement at least)
MaxWork == 3
\* placements of a run that begins with auto/auto placements inserted into a deck
\* of one empty slide
MaxAutoRun == 4
\* len(self.image_files)
NumImages == 1
\* largest slide number a placement names
MaxReqSlide == 3
\* slide mappings handed to generate_json_mapping
MaxMappings == 2
\* largest slide number of a slide mapping
MaxGenSlide == 2
\* images of one slide mapping
MaxGenImages == 4

\* ------------------------------------------------------------- values
\* Python None (no position / no image number)
None == "None"
\* the 'auto' sentinel of ImagePlacement.slide_number, kept apart from 1, 2, ...
Auto == -1
\* image_number = None, kept apart from the integers
NoImage == -2

Position == {"top-left", "top-right", "bottom-left", "bottom-right", "center", "custom"}

available_positions == <<"bottom-left", "bottom-right", "top-right">>

Eligible == {available_positions[k] : k \in 1..Len(available_positions)}

\* ------------------------------------------------- SlidePositionTracker
\* occupied_positions is a dict: a function whose domain is the set of keys.

is_position_occupied_always_free(occ, slide_number, position) == FALSE

is_position_occupied(occ, slide_number, position) ==
    IF slide_number \notin DOMAIN occ
    THEN FALSE
    ELSE position \in occ[slide_number]

occupy_position_noop(occ, slide_number, position) == occ

\* occupy_position with the set of the slide replaced instead of added to
occupy_position_replacing(occ, slide_number, position) ==
    [k \in DOMAIN occ \cup {slide_number} |->
        IF k = slide_number THEN {position} ELSE occ[k]]

occupy_position(occ, slide_number, position) ==
    [k \in DOMAIN occ \cup {slide_number} |->
        IF k = slide_number
        THEN (IF k \in DOMAIN occ THEN occ[k] ELSE {}) \cup {position}
        ELSE occ[k]]

\* the for loop of get_next_available_position, from index k on
RECURSIVE next_available_from(_, _, _)
next_available_from(occ, slide_number, k) ==
    IF k > Len(available_positions)
    THEN None
    ELSE IF ~is_position_occupied(occ, slide_number, available_positions[k])
         THEN available_positions[k]
         ELSE next_available_from(occ, slide_number, k + 1)

get_next_available_position_last(occ, slide_number) ==
    IF \E k \in 1..Len(available_positions) :
          ~is_position_occupied(occ, slide_number, available_positions[k])
    THEN LET k == CHOOSE j \in 1..Len(available_positions) :
                    /\ ~is_position_occupied(occ, slide_number, available_positions[j])
                    /\ \A m \in (j+1)..Len(available_positions) :
                          is_position_occupied(occ, slide_number, available_positions[m])
         IN available_positions[k]
    ELSE None

get_next_available_position(occ, slide_number) ==
    next_available_from(occ, slide_number, 1)

is_slide_full(occ, slide_number) ==
    get_next_available_position(occ, slide_number) = None

\* ------------------------------------------------ Existing-content scanner
\* thresholds of _determine_position_from_coordinates, in tenths of an inch
left_threshold == 30
top_threshold == 25

\* (left, top) corners of the pictures a loaded presentation may hold
Lefts == {5, 29, 30, 49, 50, 60}
Tops == {5, 24, 25, 37, 38, 50}

determine_position_from_coordinates(left_inches, top_inches) ==
    IF left_inches < left_threshold /\ top_inches < top_threshold
    THEN "top-left"
    ELSE IF left_inches >= left_threshold /\ top_inches < top_threshold
    THEN "top-right"
    ELSE IF left_inches < left_threshold /\ top_inches >= top_threshold
    THEN "bottom-left"
    ELSE IF left_inches >= left_threshold /\ top_inches >= top_threshold
    THEN "bottom-right"
    ELSE "center"

\* ------------------------------------------------------ Allocation resolver
\* The placements the mapping document may hold, after parsing.
\* A placement whose image number is valid names the last image; one whose image
\* number is not (None, 0, one past the last) is auto/auto or names slide 1.
SlideNumbers == {Auto} \cup (1..MaxReqSlide)
Placements ==
    [image_number : {NumImages}, slide_number : SlideNumbers,
     position : Position \cup {None}]
    \cup
    [image_number : {NoImage, 0, NumImages + 1}, slide_number : {Auto, 1},
     position : {None}]

\* line 410 without the upper limit
invalid_image_number_no_upper(image_number) ==
    \/ image_number = NoImage
    \/ image_number = 0
    \/ image_number < 1

\* line 410: not image_number or image_number < 1 or image_number > len(image_files)
invalid_image_number(image_number) ==
    \/ image_number = NoImage
    \/ image_number = 0
    \/ image_number < 1
    \/ image_number > NumImages

\* the for loop of auto_assign_position over range(1, len(prs.slides) + 1), from s on
RECURSIVE first_available_slide(_, _, _)
first_available_slide(occ, nslides, s) ==
    IF s > nslides
    THEN 0
    ELSE IF get_next_available_position(occ, s) # None
         THEN s
         ELSE first_available_slide(occ, nslides, s + 1)

\* auto_assign_position with the existing slides searched from the last one down
auto_assign_position_from_last(occ, nslides, placement) ==
    IF /\ placement.slide_number # Auto
       /\ placement.position = None
       /\ placement.slide_number <= nslides
       /\ get_next_available_position(occ, placement.slide_number) # None
    THEN [slide |-> placement.slide_number,
          position |-> get_next_available_position(occ, placement.slide_number),
          nslides |-> nslides]
    ELSE IF \E s \in 1..nslides : get_next_available_position(occ, s) # None
         THEN LET s == CHOOSE r \in 1..nslides :
                          /\ get_next_available_position(occ, r) # None
                          /\ \A q \in (r+1)..nslides :
                                get_next_available_position(occ, q) = None
              IN [slide |-> s,
                  position |-> get_next_available_position(occ, s),
                  nslides |-> nslides]
         ELSE [slide |-> nslides + 1,
               position |-> available_positions[1],
               nslides |-> nslides + 1]

\* auto_assign_position that, with every slide full, appends a slide and returns the
\* length the deck had before (new_slide_num read before add_slide)
auto_assign_position_stale_len(occ, nslides, placement) ==
    IF /\ placement.slide_number # Auto
       /\ placement.position = None
       /\ placement.slide_number <= nslides
       /\ get_next_available_position(occ, placement.slide_number) # None
    THEN [slide |-> placement.slide_number,
          position |-> get_next_available_position(occ, placement.slide_number),
          nslides |-> nslides]
    ELSE IF \E s \in 1..nslides : get_next_available_position(occ, s) # None
         THEN LET s == CHOOSE r \in 1..nslides :
                          /\ get_next_available_position(occ, r) # None
                          /\ \A q \in 1..(r-1) :
                                get_next_available_position(occ, q) = None
              IN [slide |-> s,
                  position |-> get_next_available_position(occ, s),
                  nslides |-> nslides]
         ELSE [slide |-> IF nslides = 0 THEN 1 ELSE nslides,
               position |-> available_positions[1],
               nslides |-> nslides + 1]

\* auto_assign_position without the test that the named slide exists (line 276)
auto_assign_position_any_slide(occ, nslides, placement) ==
    IF /\ placement.slide_number # Auto
       /\ placement.position = None
       /\ get_next_available_position(occ, placement.slide_number) # None
    THEN [slide |-> placement.slide_number,
          position |-> get_next_available_position(occ, placement.slide_number),
          nslides |-> nslides]
    ELSE LET s == first_available_slide(occ, nslides, 1) IN
         IF s # 0
         THEN [slide |-> s,
               position |-> get_next_available_position(occ, s),
               nslides |-> nslides]
         ELSE [slide |-> nslides + 1,
               position |-> available_positions[1],
               nslides |-> nslides + 1]

\* auto_assign_position that appends a slide as soon as the named slide is full or
\* missing, the existing slides not searched
auto_assign_position_append_at_once(occ, nslides, placement) ==
    IF /\ placement.slide_number # Auto
       /\ placement.position = None
       /\ placement.slide_number <= nslides
       /\ get_next_available_position(occ, placement.slide_number) # None
    THEN [slide |-> placement.slide_number,
          position |-> get_next_available_position(occ, placement.slide_number),
          nslides |-> nslides]
    ELSE LET s == first_available_slide(occ, nslides, 1) IN
         IF s # 0 /\ placement.slide_number = Auto
         THEN [slide |-> s,
               position |-> get_next_available_position(occ, s),
               nslides |-> nslides]
         ELSE [slide |-> nslides + 1,
               position |-> available_positions[1],
               nslides |-> nslides + 1]

\* The result is (slide, position) and the length of the deck afterwards.
auto_assign_position(occ, nslides, placement) ==
    IF /\ placement.slide_number # Auto
       /\ placement.position = None
       /\ placement.slide_number <= nslides
       /\ get_next_available_position(occ, placement.slide_number) # None
    THEN [slide |-> placement.slide_number,
          position |-> get_next_available_position(occ, placement.slide_number),
          nslides |-> nslides]
    ELSE LET s == first_available_slide(occ, nslides, 1) IN
         IF s # 0
         THEN [slide |-> s,
               position |-> get_next_available_position(occ, s),
               nslides |-> nslides]
         ELSE [slide |-> nslides + 1,
               position |-> available_positions[1],
               nslides |-> nslides + 1]

\* lines 417-437 with a placement naming a slide beyond the deck sent to
\* auto_assign_position whatever its position
assign_missing_slide_to_auto(occ, nslides, placement) ==
    IF \/ placement.slide_number = Auto
       \/ placement.position = None
       \/ placement.slide_number > nslides
    THEN auto_assign_position(occ, nslides,
             [placement EXCEPT !.slide_number = Auto, !.position = None])
    ELSE IF is_position_occupied(occ, placement.slide_number, placement.position)
         THEN LET alt_position ==
                      get_next_available_position(occ, placement.slide_number)
              IN IF alt_position # None
                 THEN [slide |-> placement.slide_number,
                       position |-> alt_position,
                       nslides |-> nslides]
                 ELSE auto_assign_position(occ, nslides, placement)
         ELSE [slide |-> placement.slide_number,
               position |-> placement.position,
               nslides |-> nslides]

\* lines 417-437 without the collision check of line 426
assign_unchecked(occ, nslides, placement) ==
    IF placement.slide_number = Auto \/ placement.position = None
    THEN auto_assign_position(occ, nslides, placement)
    ELSE [slide |-> placement.slide_number,
          position |-> placement.position,
          nslides |-> nslides]

\* lines 417-437 with a collision sent to auto_assign_position at once, the
\* alternative on the same slide (lines 430-433) left out
assign_no_alternative(occ, nslides, placement) ==
    IF placement.slide_number = Auto \/ placement.position = None
    THEN auto_assign_position(occ, nslides, placement)
    ELSE IF is_position_occupied(occ, placement.slide_number, placement.position)
         THEN auto_assign_position(occ, nslides, placement)
         ELSE [slide |-> placement.slide_number,
               position |-> placement.position,
               nslides |-> nslides]

\* lines 417-437 with the position of an auto-slide placement kept
assign_auto_slide_keeps_position(occ, nslides, placement) ==
    IF placement.slide_number = Auto /\ placement.position # None
    THEN [auto_assign_position(occ, nslides, placement)
             EXCEPT !.position = placement.position]
    ELSE IF placement.slide_number = Auto \/ placement.position = None
    THEN auto_assign_position(occ, nslides, placement)
    ELSE IF is_position_occupied(occ, placement.slide_number, placement.position)
         THEN LET alt_position ==
                      get_next_available_position(occ, placement.slide_number)
              IN IF alt_position # None
                 THEN [slide |-> placement.slide_number,
                       position |-> alt_position,
                       nslides |-> nslides]
                 ELSE auto_assign_position(occ, nslides, placement)
         ELSE [slide |-> placement.slide_number,
               position |-> placement.position,
               nslides |-> nslides]

\* lines 417-437 of process_mappings
assign(occ, nslides, placement) ==
    IF placement.slide_number = Auto \/ placement.position = None
    THEN auto_assign_position(occ, nslides, placement)
    ELSE IF is_position_occupied(occ, placement.slide_number, placement.position)
         THEN LET alt_position ==
                      get_next_available_position(occ, placement.slide_number)
              IN IF alt_position # None
                 THEN [slide |-> placement.slide_number,
                       position |-> alt_position,
                       nslides |-> nslides]
                 ELSE auto_assign_position(occ, nslides, placement)
         ELSE [slide |-> placement.slide_number,
               position |-> placement.position,
               nslides |-> nslides]

\* the (slide, position) pairs a tracker holds
Pairs(occ) == {pr \in (DOMAIN occ) \X Position : pr[2] \in occ[pr[1]]}

\* ------------------------------------------------- PositionManager (doc_json)
\* get_next_available_position creates the slide's key before it looks.
PM_touch(occ, slide_number) ==
    [k \in DOMAIN occ \cup {slide_number} |->
        IF k \in DOMAIN occ THEN occ[k] ELSE {}]

RECURSIVE PM_next_available_from(_, _, _)
PM_next_available_from(occ, slide_number, k) ==
    IF k > Len(available_positions)
    THEN None
    ELSE IF available_positions[k] \notin occ[slide_number]
         THEN available_positions[k]
         ELSE PM_next_available_from(occ, slide_number, k + 1)

\* get_next_available_position returning None when it had to create the slide's key
PM_get_next_available_position_new_key_none(occ, slide_number) ==
    [occ |-> PM_touch(occ, slide_number),
     position |-> IF slide_number \in DOMAIN occ
                  THEN PM_next_available_from(occ, slide_number, 1)
                  ELSE None]

PM_get_next_available_position(occ, slide_number) ==
    [occ |-> PM_touch(occ, slide_number),
     position |-> PM_next_available_from(PM_touch(occ, slide_number), slide_number, 1)]

\* occupy_position assigning the set {position} to the slide where it should add
PM_occupy_position_overwrite(occ, slide_number, position) ==
    [k \in DOMAIN occ \cup {slide_number} |->
        IF k = slide_number THEN {position} ELSE occ[k]]

PM_occupy_position(occ, slide_number, position) ==
    [k \in DOMAIN occ \cup {slide_number} |->
        IF k = slide_number
        THEN (IF k \in DOMAIN occ THEN occ[k] ELSE {}) \cup {position}
        ELSE occ[k]]

PM_is_slide_full(occ, slide_number) ==
    [occ |-> PM_get_next_available_position(occ, slide_number).occ,
     full |-> PM_get_next_available_position(occ, slide_number).position = None]

PM_get_available_count(occ, slide_number) ==
    IF slide_number \notin DOMAIN occ
    THEN Len(available_positions)
    ELSE Len(available_positions) - Cardinality(occ[slide_number])

\* the while loop of _find_or_create_slide, from next_slide on
RECURSIVE find_next_slide(_, _)
find_next_slide(occ, next_slide) ==
    IF PM_is_slide_full(occ, next_slide).full
    THEN find_next_slide(PM_is_slide_full(occ, next_slide).occ, next_slide + 1)
    ELSE [occ |-> PM_is_slide_full(occ, next_slide).occ, slide |-> next_slide]

\* _find_or_create_slide without its while loop: the slide after the current one
find_or_create_slide_no_search(occ, current_slide) ==
    [occ |-> occ, slide |-> current_slide + 1]

\* _find_or_create_slide with the search begun at slide 1
find_or_create_slide_from_first(occ, current_slide) ==
    find_next_slide(occ, 1)

find_or_create_slide(occ, current_slide) ==
    find_next_slide(occ, current_slide + 1)

\* ------------------------------------------------------------------ state
VARIABLES
    mode,                \* "insert": process_mappings, "generate": generate_json_mapping
    pc,                  \* position in the run
    slides,              \* len(prs.slides)
    occupied_positions,  \* the tracker's dict: slide number -> set of positions
    scan_slide,          \* slide_num of scan_existing_images
    seeded,              \* the pairs the scan marked
    processed,           \* placements the loop has taken
    success_count,
    placed,              \* bag of the (slide, position) pairs pictures were inserted at
    last,                \* the placement taken last, the tracker and the deck length
                         \* it met (occ, nslides), what became of it (outcome) and
                         \* what became of the placement before it (prev)
    auto_run,            \* placements taken, while all were auto/auto and inserted
                         \* into a deck that began as one empty slide; else -1
    slot_run,            \* run of inserted placements naming one slide with position auto
    gen_slide,           \* slide_num of generate_json_mapping
    gen_left,            \* images of the current slide mapping still to assign
    gen_mappings,        \* slide mappings taken
    gen_mapping,         \* mapping of the for loop: its slide_number, and how many
                         \* entries json_entries held when the loop took it
    json_entries,
    line,                \* _parse_txt_mapping: the line of the file read last
    placements           \* _parse_txt_mapping: the list it returns

vars == <<mode, pc, slides, occupied_positions, scan_slide, seeded, processed,
          success_count, placed, last, auto_run, slot_run,
          gen_slide, gen_left, gen_mappings, gen_mapping, json_entries, line,
          placements>>

insert_vars == <<slides, scan_slide, seeded, processed, success_count, placed,
                 last, auto_run, slot_run>>
gen_vars == <<gen_slide, gen_left, gen_mappings, gen_mapping, json_entries>>
parse_vars == <<line, placements>>

EmptyDict == [k \in {} |-> {}]

NoMapping == [slide_number |-> 0, entries_before |-> 0]

NoPlacement == [image_number |-> NoImage, slide_number |-> Auto, position |-> None]
NoLast == [placement |-> NoPlacement, outcome |-> "none", slide |-> 0,
           position |-> None, created |-> FALSE,
           occ |-> EmptyDict, nslides |-> 0, prev |-> "none"]
NoRun == [slide |-> 0, len |-> 0]
NoLine == [num |-> 0, kind |-> "none", fields |-> <<>>, text |-> <<>>,
           did |-> "none", prev |-> "none"]

Init ==
    /\ mode \in {"insert", "generate"}
    /\ occupied_positions = EmptyDict
    /\ scan_slide = 1
    /\ seeded = {}
    /\ processed = 0
    /\ success_count = 0
    /\ placed = EmptyBag
    /\ last = NoLast
    /\ slot_run = NoRun
    /\ gen_slide = 0
    /\ gen_left = 0
    /\ gen_mappings = 0
    /\ gen_mapping = NoMapping
    /\ json_entries = <<>>
    /\ line = NoLine
    /\ placements = <<>>
    /\ \/ /\ mode = "insert"
          \* the file exists: Presentation(ppt_file), then the scan
          /\ pc = "scan"
          /\ slides \in 0..MaxInitSlides
          /\ auto_run = -1
       \/ /\ mode = "insert"
          \* the file does not exist: a new presentation with one blank slide
          /\ pc = "loop"
          /\ slides = 1
          /\ auto_run = 0
       \/ /\ mode = "generate"
          /\ pc = "gen"
          /\ slides = 0
          /\ auto_run = -1

\* ---------------------------------------------------- scan_existing_images
\* One picture of the slide under scan: classify its corner, mark the position.
ScanPicture ==
    /\ mode = "insert" /\ pc = "scan"
    /\ scan_slide <= slides
    /\ \E left \in Lefts, top \in Tops :
          LET position == determine_position_from_coordinates(left, top) IN
          /\ occupied_positions' =
                occupy_position(occupied_positions, scan_slide, position)
    /\ UNCHANGED <<mode, pc, slides, scan_slide, seeded, processed, success_count,
                   placed, last, auto_run, slot_run>>
    /\ UNCHANGED gen_vars
    /\ UNCHANGED parse_vars

ScanNextSlide ==
    /\ mode = "insert" /\ pc = "scan"
    /\ scan_slide <= slides
    /\ scan_slide' = scan_slide + 1
    /\ UNCHANGED <<mode, pc, slides, occupied_positions, seeded, processed,
                   success_count, placed, last, auto_run, slot_run>>
    /\ UNCHANGED gen_vars
    /\ UNCHANGED parse_vars

ScanDone ==
    /\ mode = "insert" /\ pc = "scan"
    /\ scan_slide > slides
    /\ pc' = "loop"
    /\ seeded' = Pairs(occupied_positions)
    /\ auto_run' = IF slides = 1 /\ Pairs(occupied_positions) = {} THEN 0 ELSE -1
    /\ UNCHANGED <<mode, slides, occupied_positions, scan_slide, processed,
                   success_count, placed, last, slot_run>>
    /\ UNCHANGED gen_vars
    /\ UNCHANGED parse_vars

\* ------------------------------------------------ process_mappings, one placement
IsAutoAuto(placement) == placement.slide_number = Auto /\ placement.position = None

\* the run of placements (s, auto) inserted one after the other on a slide s that
\* exists and had no eligible slot marked when the run began
NextSlotRun(run, occ, nslides, placement, inserted) ==
    IF inserted /\ placement.slide_number # Auto /\ placement.position = None
       /\ placement.slide_number <= nslides
    THEN IF run.slide = placement.slide_number /\ run.len >= 1
         THEN [slide |-> run.slide, len |-> run.len + 1]
         ELSE IF \/ placement.slide_number \notin DOMAIN occ
                 \/ occ[placement.slide_number] \cap Eligible = {}
              THEN [slide |-> placement.slide_number, len |-> 1]
              ELSE NoRun
    ELSE NoRun

ProcessPlacement ==
    /\ mode = "insert" /\ pc = "loop"
    /\ \/ processed = 0
       \/ Cardinality(seeded) + processed < MaxWork
       \/ auto_run = processed /\ processed < MaxAutoRun
    /\ \E placement \in Placements, insert_ok \in BOOLEAN :
          /\ processed' = processed + 1
          /\ IF invalid_image_number(placement.image_number)
             THEN \* line 412: continue
                  /\ last' = [placement |-> placement, outcome |-> "invalid_image",
                              slide |-> 0, position |-> None, created |-> FALSE,
                              occ |-> occupied_positions, nslides |-> slides,
                                      prev |-> last.outcome]
                  /\ auto_run' = -1
                  /\ slot_run' = NoRun
                  /\ UNCHANGED <<slides, occupied_positions, success_count, placed>>
             ELSE LET a == assign(occupied_positions, slides, placement) IN
                  /\ slides' = a.nslides
                  /\ IF a.slide > a.nslides
                     THEN \* line 442: continue
                          /\ last' = [placement |-> placement,
                                      outcome |-> "invalid_slide",
                                      slide |-> a.slide, position |-> a.position,
                                      created |-> a.nslides # slides,
                                      occ |-> occupied_positions, nslides |-> slides,
                                      prev |-> last.outcome]
                          /\ auto_run' = -1
                          /\ slot_run' = NoRun
                          /\ UNCHANGED <<occupied_positions, success_count, placed>>
                     ELSE IF insert_ok
                     THEN /\ occupied_positions' =
                                occupy_position(occupied_positions, a.slide, a.position)
                          /\ success_count' = success_count + 1
                          /\ placed' = placed (+) SetToBag({<<a.slide, a.position>>})
                          /\ last' = [placement |-> placement, outcome |-> "inserted",
                                      slide |-> a.slide, position |-> a.position,
                                      created |-> a.nslides # slides,
                                      occ |-> occupied_positions, nslides |-> slides,
                                      prev |-> last.outcome]
                          /\ auto_run' = IF auto_run >= 0 /\ IsAutoAuto(placement)
                                         THEN auto_run + 1 ELSE -1
                          /\ slot_run' = NextSlotRun(slot_run, occupied_positions,
                                                     slides, placement, TRUE)
                     ELSE /\ last' = [placement |-> placement,
                                      outcome |-> "insert_failed",
                                      slide |-> a.slide, position |-> a.position,
                                      created |-> a.nslides # slides,
                                      occ |-> occupied_positions, nslides |-> slides,
                                      prev |-> last.outcome]
                          /\ auto_run' = -1
                          /\ slot_run' = NoRun
                          /\ UNCHANGED <<occupied_positions, success_count, placed>>
    /\ UNCHANGED <<mode, pc, scan_slide, seeded>>
    /\ UNCHANGED gen_vars
    /\ UNCHANGED parse_vars

\* the end of the placements: prs.save(output_file)
Save ==
    /\ mode = "insert" /\ pc = "loop"
    /\ pc' = "saved"
    /\ UNCHANGED <<mode, occupied_positions>>
    /\ UNCHANGED insert_vars
    /\ UNCHANGED gen_vars
    /\ UNCHANGED parse_vars

\* ------------------------------------------------ generate_json_mapping
\* The next slide mapping: its slide number and how many images it lists.
NextMapping ==
    /\ mode = "generate" /\ pc = "gen"
    /\ gen_left = 0
    /\ gen_mappings < MaxMappings
    /\ \E slide_number \in 0..MaxGenSlide, nimages \in 0..MaxGenImages :
          /\ gen_slide' = slide_number
          /\ gen_left' = nimages
          /\ gen_mapping' = [slide_number |-> slide_number,
                             entries_before |-> Len(json_entries)]
    /\ gen_mappings' = gen_mappings + 1
    /\ UNCHANGED <<mode, pc, occupied_positions, json_entries>>
    /\ UNCHANGED insert_vars
    /\ UNCHANGED parse_vars

\* One image of the current slide mapping (lines 313-336).
AssignImage ==
    /\ mode = "generate" /\ pc = "gen"
    /\ gen_left > 0
    /\ LET full == PM_is_slide_full(occupied_positions, gen_slide)
           moved == IF full.full
                    THEN find_or_create_slide(full.occ, gen_slide)
                    ELSE [occ |-> full.occ, slide |-> gen_slide]
           got == PM_get_next_available_position(moved.occ, moved.slide)
       IN /\ gen_slide' = moved.slide
          /\ IF got.position # None
             THEN /\ occupied_positions' =
                        PM_occupy_position(got.occ, moved.slide, got.position)
                  /\ json_entries' = Append(json_entries,
                        [image_number |-> Len(json_entries) + 1,
                         slide_number |-> moved.slide,
                         position |-> got.position])
             ELSE /\ occupied_positions' = got.occ
                  /\ UNCHANGED json_entries
    /\ gen_left' = gen_left - 1
    /\ UNCHANGED <<mode, pc, gen_mappings, gen_mapping>>
    /\ UNCHANGED insert_vars
    /\ UNCHANGED parse_vars

\* the end of the mappings: json.dump(json_entries, f)
WriteJson ==
    /\ mode = "generate" /\ pc = "gen"
    /\ gen_left = 0
    /\ pc' = "written"
    /\ UNCHANGED <<mode, occupied_positions>>
    /\ UNCHANGED gen_vars
    /\ UNCHANGED insert_vars
    /\ UNCHANGED parse_vars

Next ==
    \/ ScanPicture
    \/ ScanNextSlide
    \/ ScanDone
    \/ ProcessPlacement
    \/ Save
    \/ NextMapping
    \/ AssignImage
    \/ WriteJson

Spec == Init /\ [][Next]_vars

\* ------------------------------------------------ the two trackers as objects
\* SlidePositionTracker (imgins) and PositionManager (doc_json) after construction,
\* their methods called in any order. mode is the class, occupied_positions the
\* dict, last the call made last and what it returned.
MaxTrackSlide == 2

TrackSlides == 1..MaxTrackSlide

\* what the callers pass to occupy_position: scan_existing_images and
\* process_mappings any Position (of those that are not eligible, top-left is
\* taken here), generate_json_mapping what get_next_available_position returned
TrackPositions == Eligible \cup {"top-left"}
ManagerPositions == Eligible

NoCall == [op |-> "none", slide |-> 0, position |-> None, was |-> FALSE,
           next |-> None, answer |-> FALSE, count |-> 0]

TrackerInit ==
    /\ mode \in {"tracker", "manager"}
    /\ pc = "object"
    /\ occupied_positions = EmptyDict
    /\ last = NoCall
    /\ slides = 0
    /\ scan_slide = 1
    /\ seeded = {}
    /\ processed = 0
    /\ success_count = 0
    /\ placed = EmptyBag
    /\ auto_run = -1
    /\ slot_run = NoRun
    /\ gen_slide = 0
    /\ gen_left = 0
    /\ gen_mappings = 0
    /\ gen_mapping = NoMapping
    /\ json_entries = <<>>
    /\ line = NoLine
    /\ placements = <<>>

Tracker_is_position_occupied ==
    /\ mode = "tracker"
    /\ \E slide_number \in TrackSlides, position \in TrackPositions :
          last' = [NoCall EXCEPT
                     !.op = "occupied", !.slide = slide_number,
                     !.position = position,
                     !.answer = is_position_occupied(occupied_positions,
                                                     slide_number, position)]
    /\ UNCHANGED <<mode, pc, occupied_positions>>
    /\ UNCHANGED <<slides, scan_slide, seeded, processed, success_count, placed,
                   auto_run, slot_run>>
    /\ UNCHANGED gen_vars
    /\ UNCHANGED parse_vars

Tracker_occupy_position ==
    /\ mode = "tracker"
    /\ \E slide_number \in TrackSlides, position \in TrackPositions :
          /\ occupied_positions' =
                occupy_position(occupied_positions, slide_number, position)
          /\ last' = [NoCall EXCEPT
                        !.op = "occupy", !.slide = slide_number,
                        !.position = position,
                        !.was = is_position_occupied(occupied_positions,
                                                     slide_number, position)]
    /\ UNCHANGED <<mode, pc>>
    /\ UNCHANGED <<slides, scan_slide, seeded, processed, success_count, placed,
                   auto_run, slot_run>>
    /\ UNCHANGED gen_vars
    /\ UNCHANGED parse_vars

Tracker_get_next_available_position ==
    /\ mode = "tracker"
    /\ \E slide_number \in TrackSlides :
          last' = [NoCall EXCEPT
                     !.op = "next", !.slide = slide_number,
                     !.next = get_next_available_position(occupied_positions,
                                                          slide_number)]
    /\ UNCHANGED <<mode, pc, occupied_positions>>
    /\ UNCHANGED <<slides, scan_slide, seeded, processed, success_count, placed,
                   auto_run, slot_run>>
    /\ UNCHANGED gen_vars
    /\ UNCHANGED parse_vars

Tracker_is_slide_full ==
    /\ mode = "tracker"
    /\ \E slide_number \in TrackSlides :
          last' = [NoCall EXCEPT
                     !.op = "full", !.slide = slide_number,
                     !.answer = is_slide_full(occupied_positions, slide_number)]
    /\ UNCHANGED <<mode, pc, occupied_positions>>
    /\ UNCHANGED <<slides, scan_slide, seeded, processed, success_count, placed,
                   auto_run, slot_run>>
    /\ UNCHANGED gen_vars
    /\ UNCHANGED parse_vars

Manager_occupy_position ==
    /\ mode = "manager"
    /\ \E slide_number \in TrackSlides, position \in ManagerPositions :
          /\ occupied_positions' =
                PM_occupy_position(occupied_positions, slide_number, position)
          /\ last' = [NoCall EXCEPT
                        !.op = "occupy", !.slide = slide_number,
                        !.position = position,
                        !.was = /\ slide_number \in DOMAIN occupied_positions
                                /\ position \in occupied_positions[slide_number]]
    /\ UNCHANGED <<mode, pc>>
    /\ UNCHANGED <<slides, scan_slide, seeded, processed, success_count, placed,
                   auto_run, slot_run>>
    /\ UNCHANGED gen_vars
    /\ UNCHANGED parse_vars

Manager_get_next_available_position ==
    /\ mode = "manager"
    /\ \E slide_number \in TrackSlides :
          LET got == PM_get_next_available_position(occupied_positions, slide_number)
          IN /\ occupied_positions' = got.occ
             /\ last' = [NoCall EXCEPT
                           !.op = "next", !.slide = slide_number,
                           !.next = got.position]
    /\ UNCHANGED <<mode, pc>>
    /\ UNCHANGED <<slides, scan_slide, seeded, processed, success_count, placed,
                   auto_run, slot_run>>
    /\ UNCHANGED gen_vars
    /\ UNCHANGED parse_vars

Manager_is_slide_full ==
    /\ mode = "manager"
    /\ \E slide_number \in TrackSlides :
          LET got == PM_is_slide_full(occupied_positions, slide_number)
          IN /\ occupied_positions' = got.occ
             /\ last' = [NoCall EXCEPT
                           !.op = "full", !.slide = slide_number,
                           !.answer = got.full]
    /\ UNCHANGED <<mode, pc>>
    /\ UNCHANGED <<slides, scan_slide, seeded, processed, success_count, placed,
                   auto_run, slot_run>>
    /\ UNCHANGED gen_vars
    /\ UNCHANGED parse_vars

Manager_get_available_count ==
    /\ mode = "manager"
    /\ \E slide_number \in TrackSlides :
          last' = [NoCall EXCEPT
                     !.op = "count", !.slide = slide_number,
                     !.count = PM_get_available_count(occupied_positions,
                                                      slide_number)]
    /\ UNCHANGED <<mode, pc, occupied_positions>>
    /\ UNCHANGED <<slides, scan_slide, seeded, processed, success_count, placed,
                   auto_run, slot_run>>
    /\ UNCHANGED gen_vars
    /\ UNCHANGED parse_vars

TrackerNext ==
    \/ Tracker_is_position_occupied
    \/ Tracker_occupy_position
    \/ Tracker_get_next_available_position
    \/ Tracker_is_slide_full
    \/ Manager_occupy_position
    \/ Manager_get_next_available_position
    \/ Manager_is_slide_full
    \/ Manager_get_available_count

TrackerSpec == TrackerInit /\ [][TrackerNext]_vars

\* ------------------------------------- _determine_position_from_coordinates
\* One picture of a loaded presentation: its (left, top) corner, in tenths of an
\* inch, anywhere on the 10 x 7.5 inch canvas, and the position it is given.
MaxLeft == 100
MaxTop == 75

ClassifyInit ==
    /\ mode = "classify"
    /\ pc = "shape"
    /\ \E left_inches \in 0..MaxLeft, top_inches \in 0..MaxTop :
          last = [left |-> left_inches, top |-> top_inches, position |-> None]
    /\ occupied_positions = EmptyDict
    /\ slides = 0
    /\ scan_slide = 1
    /\ seeded = {}
    /\ processed = 0
    /\ success_count = 0
    /\ placed = EmptyBag
    /\ auto_run = -1
    /\ slot_run = NoRun
    /\ gen_slide = 0
    /\ gen_left = 0
    /\ gen_mappings = 0
    /\ gen_mapping = NoMapping
    /\ json_entries = <<>>
    /\ line = NoLine
    /\ placements = <<>>

DeterminePosition ==
    /\ mode = "classify" /\ pc = "shape"
    /\ pc' = "classified"
    /\ last' = [last EXCEPT
                  !.position = determine_position_from_coordinates(last.left, last.top)]
    /\ UNCHANGED <<mode, occupied_positions>>
    /\ UNCHANGED <<slides, scan_slide, seeded, processed, success_count, placed,
                   auto_run, slot_run>>
    /\ UNCHANGED gen_vars
    /\ UNCHANGED parse_vars

ClassifyNext == DeterminePosition

ClassifySpec == ClassifyInit /\ [][ClassifyNext]_vars

\* ------------------------------------------------------- _parse_txt_mapping
\* A line of the mapping file is a sequence of tokens: ":" , " " (a run of white
\* space), "#" and words. Lengths are in tenths of an inch.
MaxTxtLines == 2
MaxFields == 4

\* left, top, width, height when the line does not give them (None)
NoLength == -1

\* the texts a field of a line may hold, by the column of the field:
\* blank, a number, auto, a position, something that is none of these
FieldTexts(column) ==
    CASE column = 1 -> {"", "1", "abc"}
      [] column = 2 -> {"", "auto", "1", "abc"}
      [] column = 3 -> {"", "auto", "bottom-left", "abc"}
      [] OTHER -> {"", "1.5", "abc"}

AllFieldTexts == {"", "auto", "1", "1.5", "bottom-left", "abc"}

\* image number, slide number and position of a line that goes on with
\* left, top, width, height
FullRecord == <<"1", "1", "bottom-left">>

\* the fields of a line: any texts in the first three columns; the columns after
\* them filled only in a line that begins as FullRecord
FieldSeqs ==
    UNION {{f \in [1..n -> AllFieldTexts] :
               /\ \A i \in 1..n : f[i] \in FieldTexts(i)
               /\ n > Len(FullRecord) => SubSeq(f, 1, Len(FullRecord)) = FullRecord} :
           n \in 1..MaxFields}

\* the text of a line made of the fields f joined by sep, every field between
\* blanks when padded
RECURSIVE RenderFrom(_, _, _, _)
RenderFrom(f, sep, padded, i) ==
    IF i > Len(f)
    THEN <<>>
    ELSE (IF padded THEN <<" ">> ELSE <<>>)
         \o (IF f[i] = "" THEN <<>> ELSE <<f[i]>>)
         \o (IF padded THEN <<" ">> ELSE <<>>)
         \o (IF i < Len(f) THEN <<sep>> ELSE <<>>)
         \o RenderFrom(f, sep, padded, i + 1)

\* The lines a mapping file may hold: records with their fields joined by colons,
\* padded with blanks or not; records with no blank field joined by white space;
\* blank lines; comment lines.
TxtLines ==
    {[kind |-> "record", fields |-> f, text |-> RenderFrom(f, ":", padded, 1)] :
        f \in {g \in FieldSeqs : Len(g) >= 2 \/ g[1] # ""}, padded \in BOOLEAN}
    \cup
    {[kind |-> "record", fields |-> f, text |-> RenderFrom(f, " ", FALSE, 1)] :
        f \in {g \in FieldSeqs : \A i \in 1..Len(g) : g[i] # ""}}
    \cup
    {[kind |-> "blank", fields |-> <<>>, text |-> t] : t \in {<<>>, <<" ">>}}
    \cup
    {[kind |-> "comment", fields |-> <<>>, text |-> t] :
        t \in {<<"#">>, <<"#", " ", "abc">>,
               <<" ", "#", "1", ":", "1", ":", "bottom-left">>}}

\* str.strip()
RECURSIVE lstrip(_)
lstrip(s) == IF s # <<>> /\ Head(s) = " " THEN lstrip(Tail(s)) ELSE s

RECURSIVE rstrip(_)
rstrip(s) ==
    IF s # <<>> /\ s[Len(s)] = " " THEN rstrip(SubSeq(s, 1, Len(s) - 1)) ELSE s

strip(s) == rstrip(lstrip(s))

\* str.split(sep): the parts of s from token i on, part being the one under way
RECURSIVE split_from(_, _, _, _)
split_from(s, sep, i, part) ==
    IF i > Len(s)
    THEN <<part>>
    ELSE IF s[i] = sep
         THEN <<part>> \o split_from(s, sep, i + 1, <<>>)
         ELSE split_from(s, sep, i + 1, Append(part, s[i]))

split_colon(s) == split_from(s, ":", 1, <<>>)

\* str.split(): the runs of tokens that are not white space
split_whitespace(s) ==
    SelectSeq(split_from(s, " ", 1, <<>>), LAMBDA part : part # <<>>)

\* int(s) that gives 0 for a text that is not a number, where int raises
py_int_lenient(s) ==
    IF Len(strip(s)) = 1 /\ strip(s)[1] = "1"
    THEN [ok |-> TRUE, value |-> 1]
    ELSE [ok |-> TRUE, value |-> 0]

\* int(s): white space around the number is allowed; ok is FALSE for ValueError
py_int(s) ==
    IF Len(strip(s)) = 1 /\ strip(s)[1] = "1"
    THEN [ok |-> TRUE, value |-> 1]
    ELSE [ok |-> FALSE, value |-> 0]

\* float(s), in tenths
py_float(s) ==
    IF Len(strip(s)) = 1 /\ strip(s)[1] = "1"
    THEN [ok |-> TRUE, value |-> 10]
    ELSE IF Len(strip(s)) = 1 /\ strip(s)[1] = "1.5"
    THEN [ok |-> TRUE, value |-> 15]
    ELSE [ok |-> FALSE, value |-> 0]

\* Position(position_str): the member of the enum with this value, else ValueError
Position_of(s) ==
    IF Len(s) = 1 /\ s[1] \in Position
    THEN [ok |-> TRUE, value |-> s[1]]
    ELSE [ok |-> FALSE, value |-> None]

\* parts[k] (k from 0) stripped, <<>> when the line has no such part
stripped_part(parts, k) ==
    IF Len(parts) > k THEN strip(parts[k + 1]) ELSE <<>>

\* float(parts[k]) if len(parts) > k and parts[k].strip() else None
optional_float(parts, k) ==
    IF stripped_part(parts, k) # <<>>
    THEN py_float(parts[k + 1])
    ELSE [ok |-> TRUE, value |-> NoLength]

NoTxtPlacement ==
    [image_number |-> NoImage, slide_number |-> Auto, position |-> None,
     left |-> NoLength, top |-> NoLength, width |-> NoLength, height |-> NoLength]

\* The body of the loop of _parse_txt_mapping for one line: did is "ignored"
\* (blank or comment), "skipped" (the except branch) or "appended".
parse_txt_line(text) ==
    LET stripped == strip(text) IN
    IF stripped = <<>> \/ Head(stripped) = "#"
    THEN [did |-> "ignored", placement |-> NoTxtPlacement]
    ELSE
    LET parts == IF \E i \in 1..Len(stripped) : stripped[i] = ":"
                 THEN split_colon(stripped)
                 ELSE split_whitespace(stripped)
        slide_text == IF stripped_part(parts, 1) # <<>>
                      THEN stripped_part(parts, 1) ELSE <<"auto">>
        slide_number == IF slide_text # <<"auto">>
                        THEN py_int(slide_text)
                        ELSE [ok |-> TRUE, value |-> Auto]
        position_str == IF stripped_part(parts, 2) # <<>>
                        THEN stripped_part(parts, 2) ELSE <<"auto">>
        position == IF position_str # <<"auto">>
                    THEN Position_of(position_str)
                    ELSE [ok |-> TRUE, value |-> None]
        image_number == IF stripped_part(parts, 0) # <<>>
                        THEN py_int(parts[1])
                        ELSE [ok |-> TRUE, value |-> NoImage]
        left == optional_float(parts, 3)
        top == optional_float(parts, 4)
        width == optional_float(parts, 5)
        height == optional_float(parts, 6)
    IN IF /\ slide_number.ok /\ position.ok /\ image_number.ok
          /\ left.ok /\ top.ok /\ width.ok /\ height.ok
       THEN [did |-> "appended",
             placement |-> [image_number |-> image_number.value,
                            slide_number |-> slide_number.value,
                            position |-> position.value,
                            left |-> left.value, top |-> top.value,
                            width |-> width.value, height |-> height.value]]
       ELSE [did |-> "skipped", placement |-> NoTxtPlacement]

ParseInit ==
    /\ mode = "parse_txt"
    /\ pc = "lines"
    /\ line = NoLine
    /\ placements = <<>>
    /\ occupied_positions = EmptyDict
    /\ last = NoLast
    /\ slides = 0
    /\ scan_slide = 1
    /\ seeded = {}
    /\ processed = 0
    /\ success_count = 0
    /\ placed = EmptyBag
    /\ auto_run = -1
    /\ slot_run = NoRun
    /\ gen_slide = 0
    /\ gen_left = 0
    /\ gen_mappings = 0
    /\ gen_mapping = NoMapping
    /\ json_entries = <<>>

\* one turn of the loop over the lines of the file
ParseTxtLine ==
    /\ mode = "parse_txt" /\ pc = "lines"
    /\ line.num < MaxTxtLines
    /\ \E l \in TxtLines :
          LET r == parse_txt_line(l.text) IN
          /\ line' = [num |-> line.num + 1, kind |-> l.kind, fields |-> l.fields,
                      text |-> l.text, did |-> r.did, prev |-> line.did]
          /\ placements' = IF r.did = "appended"
                           THEN Append(placements, r.placement)
                           ELSE placements
    /\ UNCHANGED <<mode, pc, occupied_positions>>
    /\ UNCHANGED insert_vars
    /\ UNCHANGED gen_vars

\* the end of the file: return placements
ReturnPlacements ==
    /\ mode = "parse_txt" /\ pc = "lines"
    /\ pc' = "returned"
    /\ UNCHANGED <<mode, occupied_positions>>
    /\ UNCHANGED insert_vars
    /\ UNCHANGED gen_vars
    /\ UNCHANGED parse_vars

ParseNext ==
    \/ ParseTxtLine
    \/ ReturnPlacements

ParseSpec == ParseInit /\ [][ParseNext]_vars

\* ------------------------------------------- process_mappings on a mapping file
\* The run on a new presentation (one blank slide) with a mapping file in one of
\* the three forms. A record of the file is given by the texts of its fields
\* (image number, slide number, position); a field after the last one given is
\* absent: the JSON item has no such key, the CSV file no such column, the line
\* of the text form no such part. In JSON a text that denotes an integer is
\* written as a number and any other text as a string.
MaxRunRecords == 2

\* an image number or slide number that is a str other than 'auto'
NotInt == -3

\* an image number or slide number that is the empty str
EmptyStr == -4

\* the records of a mapping file: FullRecord, or FullRecord cut short, with at most
\* one field changed, and the record auto/auto
RunRecords ==
    {f \in FieldSeqs :
        /\ Len(f) <= Len(FullRecord)
        /\ Len(f) >= 2 \/ f[1] # ""
        /\ Cardinality({i \in 1..Len(f) : f[i] # FullRecord[i]}) <= 1}
    \cup {<<"1", "auto", "auto">>}

NoFile == [num |-> 0, records |-> <<>>, did |-> "none"]

\* json.load: the value of a field written as said above
json_value(text) ==
    IF text = "1" THEN 1
    ELSE IF text = "auto" THEN Auto
    ELSE IF text = "" THEN EmptyStr
    ELSE NotInt

\* The body of the loop of _parse_json_mapping for the item of the record f;
\* ok is FALSE when Position(position_str) raises ValueError.
parse_json_item(f) ==
    LET position_str == IF Len(f) >= 3 THEN f[3] ELSE "auto"
        position == IF position_str # "auto"
                    THEN Position_of(<<position_str>>)
                    ELSE [ok |-> TRUE, value |-> None]
    IN [ok |-> position.ok,
        placement |-> [image_number |-> IF Len(f) >= 1 THEN json_value(f[1])
                                        ELSE NoImage,
                       slide_number |-> IF Len(f) >= 2 THEN json_value(f[2])
                                        ELSE Auto,
                       position |-> position.value]]

\* The body of the loop of _parse_csv_mapping for the row of the record f;
\* ok is FALSE when Position() or int() raises ValueError.
parse_csv_row(f) ==
    LET position_str == IF Len(f) >= 3 THEN f[3] ELSE "auto"
        position == IF position_str # "auto"
                    THEN Position_of(<<position_str>>)
                    ELSE [ok |-> TRUE, value |-> None]
        slide_text == IF Len(f) >= 2 THEN f[2] ELSE "auto"
        slide_number == IF slide_text # "auto"
                        THEN IF slide_text # ""
                             THEN py_int(<<slide_text>>)
                             ELSE [ok |-> TRUE, value |-> Auto]
                        ELSE [ok |-> TRUE, value |-> Auto]
        image_number == IF Len(f) >= 1 /\ f[1] # ""
                        THEN py_int(<<f[1]>>)
                        ELSE [ok |-> TRUE, value |-> NoImage]
    IN [ok |-> position.ok /\ slide_number.ok /\ image_number.ok,
        placement |-> [image_number |-> image_number.value,
                       slide_number |-> slide_number.value,
                       position |-> position.value]]

\* The line of the record f in _parse_txt_mapping; ok is FALSE when the line is
\* skipped.
parse_txt_record(f) ==
    LET r == parse_txt_line(RenderFrom(f, ":", FALSE, 1))
    IN [ok |-> r.did = "appended",
        placement |-> [image_number |-> r.placement.image_number,
                       slide_number |-> r.placement.slide_number,
                       position |-> r.placement.position]]

\* What the parser of the given form returns for the records from the k-th on:
\* the list of placements, or raised when a record made it raise.
RECURSIVE parse_records(_, _, _)
parse_records(form, records, k) ==
    IF k > Len(records)
    THEN [raised |-> FALSE, placements |-> <<>>]
    ELSE LET r == IF form = "json" THEN parse_json_item(records[k])
                  ELSE IF form = "csv" THEN parse_csv_row(records[k])
                  ELSE parse_txt_record(records[k])
             rest == parse_records(form, records, k + 1)
         IN IF r.ok
            THEN [raised |-> rest.raised,
                  placements |-> IF rest.raised THEN <<>>
                                 ELSE <<r.placement>> \o rest.placements]
            ELSE IF form = "txt"
            THEN rest
            ELSE [raised |-> TRUE, placements |-> <<>>]

RunInit ==
    /\ mode \in {"run_json", "run_csv", "run_txt"}
    /\ pc = "parse"
    /\ line = NoFile
    /\ placements = <<>>
    /\ slides = 1
    /\ occupied_positions = EmptyDict
    /\ last = NoLast
    /\ scan_slide = 1
    /\ seeded = {}
    /\ processed = 0
    /\ success_count = 0
    /\ placed = EmptyBag
    /\ auto_run = -1
    /\ slot_run = NoRun
    /\ gen_slide = 0
    /\ gen_left = 0
    /\ gen_mappings = 0
    /\ gen_mapping = NoMapping
    /\ json_entries = <<>>

\* parse_mapping_document, one record: appended, skipped (text form), or the
\* exception that process_mappings catches at line 400 to return False
ReadRecord ==
    /\ mode \in {"run_json", "run_csv", "run_txt"} /\ pc = "parse"
    /\ line.num < MaxRunRecords
    /\ \E f \in RunRecords :
          LET r == IF mode = "run_json" THEN parse_json_item(f)
                   ELSE IF mode = "run_csv" THEN parse_csv_row(f)
                   ELSE parse_txt_record(f)
          IN /\ line' = [num |-> line.num + 1,
                         records |-> Append(line.records, f),
                         did |-> IF r.ok THEN "appended"
                                 ELSE IF mode = "run_txt" THEN "skipped"
                                 ELSE "raised"]
             /\ placements' = IF r.ok THEN Append(placements, r.placement)
                              ELSE placements
             /\ pc' = IF r.ok \/ mode = "run_txt" THEN "parse" ELSE "returned_false"
    /\ UNCHANGED <<mode, occupied_positions>>
    /\ UNCHANGED insert_vars
    /\ UNCHANGED gen_vars

\* the end of the file: the parser returns placements
EndOfFile ==
    /\ mode \in {"run_json", "run_csv", "run_txt"} /\ pc = "parse"
    /\ pc' = "loop"
    /\ UNCHANGED <<mode, occupied_positions>>
    /\ UNCHANGED insert_vars
    /\ UNCHANGED gen_vars
    /\ UNCHANGED parse_vars

\* One placement of the loop of process_mappings. A non-empty str image number
\* raises TypeError at line 410 (the empty str is skipped by "not image_number"), a
\* str slide number other than 'auto' at line 276 or at line 440; nothing catches
\* it.
RunPlacement ==
    /\ mode \in {"run_json", "run_csv", "run_txt"} /\ pc = "loop"
    /\ processed < Len(placements)
    /\ \E insert_ok \in BOOLEAN :
          LET placement == placements[processed + 1]
              a == assign(occupied_positions, slides, placement)
              met == [placement |-> placement, slide |-> 0, position |-> None,
                      created |-> FALSE, occ |-> occupied_positions,
                      nslides |-> slides, prev |-> last.outcome]
          IN
          /\ processed' = processed + 1
          /\ IF placement.image_number = NotInt
             THEN /\ pc' = "crashed"
                  /\ last' = [outcome |-> "TypeError"] @@ met
                  /\ UNCHANGED <<slides, occupied_positions, success_count, placed>>
             ELSE IF invalid_image_number(placement.image_number)
             THEN /\ pc' = "loop"
                  /\ last' = [outcome |-> "invalid_image"] @@ met
                  /\ UNCHANGED <<slides, occupied_positions, success_count, placed>>
             ELSE IF placement.slide_number \in {NotInt, EmptyStr}
             THEN /\ pc' = "crashed"
                  /\ last' = [outcome |-> "TypeError"] @@ met
                  /\ UNCHANGED <<slides, occupied_positions, success_count, placed>>
             ELSE IF a.slide > a.nslides
             THEN /\ pc' = "loop"
                  /\ slides' = a.nslides
                  /\ last' = [outcome |-> "invalid_slide"] @@ met
                  /\ UNCHANGED <<occupied_positions, success_count, placed>>
             ELSE /\ pc' = "loop"
                  /\ slides' = a.nslides
                  /\ last' = [outcome |-> IF insert_ok THEN "inserted"
                                          ELSE "insert_failed",
                              slide |-> a.slide, position |-> a.position,
                              created |-> a.nslides # slides] @@ met
                  /\ IF insert_ok
                     THEN /\ occupied_positions' =
                                occupy_position(occupied_positions, a.slide, a.position)
                          /\ success_count' = success_count + 1
                          /\ placed' = placed (+) SetToBag({<<a.slide, a.position>>})
                     ELSE UNCHANGED <<occupied_positions, success_count, placed>>
    /\ UNCHANGED <<mode, scan_slide, seeded, auto_run, slot_run>>
    /\ UNCHANGED gen_vars
    /\ UNCHANGED parse_vars

\* the end of the placements: prs.save(output_file) and the tally
RunSave ==
    /\ mode \in {"run_json", "run_csv", "run_txt"} /\ pc = "loop"
    /\ processed = Len(placements)
    /\ pc' = "saved"
    /\ UNCHANGED <<mode, occupied_positions>>
    /\ UNCHANGED insert_vars
    /\ UNCHANGED gen_vars
    /\ UNCHANGED parse_vars

RunNext ==
    \/ ReadRecord
    \/ EndOfFile
    \/ RunPlacement
    \/ RunSave

RunSpec == RunInit /\ [][RunNext]_vars

\* --------------------------------------------------- insert_image_to_slide
\* Where and how large insert_image_to_slide adds the picture. The lengths handed
\* in (left, top, width, height, in inches) are in tenths of an inch, NoLength for
\* None; the Length values handed to add_picture are in twentieths of an inch, so
\* that the halving of the centre is exact.
MaxGeomSteps == 2

\* the lengths a placement gives: None, 0, 0.5 in, 1.0 in, ...
GeomLengths == {NoLength} \cup {5 * k : k \in 0..MaxGeomSteps}

\* the size of the picture in the image file (width, height)
NaturalSizes == {<<60, 40>>, <<90, 30>>}

\* pptx.util.Inches, from tenths of an inch
Inches(inches) == 2 * inches

\* Python truth of a length: None and 0 are false
truthy(length) == length # NoLength /\ length # 0

\* get_position_coordinates, its result (in inches) as the Length that
\* insert_image_to_slide makes of it with Inches()
get_position_coordinates(position, width, height) ==
    CASE position = "top-left" -> <<Inches(5), Inches(5)>>
      [] position = "top-right" -> <<Inches(60), Inches(5)>>
      [] position = "bottom-left" -> <<Inches(5), Inches(50)>>
      [] position = "bottom-right" -> <<Inches(60), Inches(50)>>
      [] OTHER ->
           LET slide_width == Inches(100)
               slide_height == Inches(75)
               img_width == IF truthy(width) THEN Inches(width) ELSE Inches(30)
               img_height == IF truthy(height) THEN Inches(height) ELSE Inches(20)
           IN <<(slide_width - img_width) \div 2, (slide_height - img_height) \div 2>>

\* The picture insert_image_to_slide adds when add_picture does not raise:
\* its left, top, width and height. natural is the size of the image.
insert_image_to_slide(position, left, top, width, height, natural) ==
    IF position = "center"
    THEN LET slide_width == Inches(100)
             slide_height == Inches(75)
         IN IF truthy(width) /\ truthy(height)
            THEN [left |-> (slide_width - Inches(width)) \div 2,
                  top |-> (slide_height - Inches(height)) \div 2,
                  width |-> Inches(width), height |-> Inches(height)]
            ELSE [left |-> (slide_width - natural[1]) \div 2,
                  top |-> (slide_height - natural[2]) \div 2,
                  width |-> natural[1], height |-> natural[2]]
    ELSE IF position = "custom"
    THEN LET left_pos == IF truthy(left) THEN Inches(left) ELSE Inches(10)
             top_pos == IF truthy(top) THEN Inches(top) ELSE Inches(10)
         IN IF truthy(width) /\ truthy(height)
            THEN [left |-> left_pos, top |-> top_pos,
                  width |-> Inches(width), height |-> Inches(height)]
            ELSE [left |-> left_pos, top |-> top_pos,
                  width |-> natural[1], height |-> natural[2]]
    ELSE LET pos == get_position_coordinates(position, width, height)
             left_pos == pos[1]
             top_pos == pos[2]
         IN IF truthy(width) /\ truthy(height)
            THEN [left |-> left_pos, top |-> top_pos,
                  width |-> Inches(width), height |-> Inches(height)]
            ELSE [left |-> left_pos, top |-> top_pos,
                  width |-> natural[1], height |-> natural[2]]

NoPicture == [left |-> -1, top |-> -1, width |-> -1, height |-> -1]

InsertInit ==
    /\ mode = "insert_image"
    /\ pc = "call"
    /\ \E position \in Position, natural \in NaturalSizes,
          left \in GeomLengths, top \in GeomLengths,
          width \in GeomLengths, height \in GeomLengths :
          last = [position |-> position, left |-> left, top |-> top,
                  width |-> width, height |-> height, natural |-> natural,
                  success |-> FALSE, picture |-> NoPicture]
    /\ occupied_positions = EmptyDict
    /\ slides = 1
    /\ scan_slide = 1
    /\ seeded = {}
    /\ processed = 0
    /\ success_count = 0
    /\ placed = EmptyBag
    /\ auto_run = -1
    /\ slot_run = NoRun
    /\ gen_slide = 0
    /\ gen_left = 0
    /\ gen_mappings = 0
    /\ gen_mapping = NoMapping
    /\ json_entries = <<>>
    /\ line = NoLine
    /\ placements = <<>>

\* insert_image_to_slide: the picture is added and True returned, or add_picture
\* raises, the exception is caught and False returned
InsertImageToSlide ==
    /\ mode = "insert_image" /\ pc = "call"
    /\ \E raised \in BOOLEAN :
          last' = [last EXCEPT
                     !.success = ~raised,
                     !.picture = IF raised THEN NoPicture
                                 ELSE insert_image_to_slide(
                                          last.position, last.left, last.top,
                                          last.width, last.height, last.natural)]
    /\ pc' = "returned"
    /\ UNCHANGED <<mode, occupied_positions, slides, scan_slide, seeded, processed,
                   success_count, placed, auto_run, slot_run>>
    /\ UNCHANGED gen_vars
    /\ UNCHANGED parse_vars

InsertNext == InsertImageToSlide

InsertSpec == InsertInit /\ [][InsertNext]_vars

\* ------------------------------------------------------------------ claims
\* What the specification says of the tracker and of the resolver, written from the
\* specification's words and not from the operators above.
Marked(occ, s) == IF s \in DOMAIN occ THEN occ[s] ELSE {}

HasFree(occ, s) == \E p \in Eligible : p \notin Marked(occ, s)

NextAvailable(occ, s) ==
    IF "bottom-left" \notin Marked(occ, s) THEN "bottom-left"
    ELSE IF "bottom-right" \notin Marked(occ, s) THEN "bottom-right"
    ELSE IF "top-right" \notin Marked(occ, s) THEN "top-right"
    ELSE None

\* rule (1): the first slide of 1..n with a free eligible slot, else a new slide
SearchThenCreate(occ, n) ==
    IF \E s \in 1..n : HasFree(occ, s)
    THEN LET s == CHOOSE r \in 1..n :
                     HasFree(occ, r) /\ \A q \in 1..(r - 1) : ~HasFree(occ, q)
         IN <<s, NextAvailable(occ, s)>>
    ELSE <<n + 1, "bottom-left">>

\* the last placement passed both validations: it has a resolved (slide, position)
Resolved == mode = "insert" /\ last.outcome \in {"inserted", "insert_failed"}

LastPair == <<last.slide, last.position>>

\* C1: no two accepted assignments have the same (slide, slot) pair: no pair has had
\* two pictures inserted at it by process_mappings, and no two entries written by
\* generate_json_mapping name the same slide and position.
C1_CollisionFree ==
    /\ \A pr \in BagToSet(placed) : CopiesIn(pr, placed) = 1
    /\ \A a, b \in 1..Len(json_entries) :
          a # b => <<json_entries[a].slide_number, json_entries[a].position>>
                     # <<json_entries[b].slide_number, json_entries[b].position>>

\* a placement asked for an eligible slot some picture already held and was
\* inserted somewhere else
C1_Witness ==
    /\ last.outcome = "inserted"
    /\ last.placement.slide_number # Auto
    /\ last.placement.position \in Eligible
    /\ <<last.placement.slide_number, last.placement.position>> \in BagToSet(placed)
    /\ LastPair # <<last.placement.slide_number, last.placement.position>>
    /\ Cardinality(BagToSet(placed)) >= 2

\* C2: no placement is resolved to, and no picture is inserted at, a (slide, slot)
\* pair that scan_existing_images marked occupied.
C2_SeededRespected ==
    /\ Resolved => LastPair \notin seeded
    /\ \A pr \in BagToSet(placed) : pr \notin seeded

\* a placement asked for a pair the scan had marked and was inserted elsewhere
C2_Witness ==
    /\ last.outcome = "inserted"
    /\ last.placement.slide_number # Auto
    /\ last.placement.position # None
    /\ <<last.placement.slide_number, last.placement.position>> \in seeded

\* Scenario A of the specification
ScenarioA == << <<1, "bottom-left">>, <<1, "bottom-right">>, <<1, "top-right">>,
                <<2, "bottom-left">> >>

\* C3: an auto/auto placement resolves by rule (1) on the tracker and deck it meets,
\* appending a slide exactly when every existing slide is full; and the first four
\* auto/auto placements inserted into a deck of one empty slide resolve to
\* (1,bottom-left), (1,bottom-right), (1,top-right), (2,bottom-left).
C3_AutoAuto ==
    /\ (Resolved /\ IsAutoAuto(last.placement)) =>
          /\ LastPair = SearchThenCreate(last.occ, last.nslides)
          /\ slides = (IF \E s \in 1..last.nslides : HasFree(last.occ, s)
                       THEN last.nslides ELSE last.nslides + 1)
    /\ (mode = "insert" /\ auto_run \in 1..Len(ScenarioA)) =>
          LastPair = ScenarioA[auto_run]

\* the fourth auto/auto placement of Scenario A has been inserted on the new slide 2
C3_Witness ==
    /\ auto_run = Len(ScenarioA)
    /\ processed = Len(ScenarioA)
    /\ last.outcome = "inserted"
    /\ last.created
    /\ slides = 2

\* C4 as stated: once some slide holds the three eligible slots, an auto/auto
\* placement resolves to a new slide, previous length + 1, never an existing one.
C4_AsStated ==
    (/\ Resolved /\ IsAutoAuto(last.placement)
     /\ \E s \in 1..last.nslides : Eligible \subseteq Marked(last.occ, s))
    => (last.slide = last.nslides + 1 /\ slides = last.nslides + 1)

\* C4 amended: once every existing slide holds the three eligible slots, an
\* auto/auto placement resolves to a new slide, previous length + 1, never an
\* existing one.
C4_Overflow ==
    (/\ Resolved /\ IsAutoAuto(last.placement)
     /\ \A s \in 1..last.nslides : Eligible \subseteq Marked(last.occ, s))
    => (/\ last.slide = last.nslides + 1
        /\ last.slide \notin 1..last.nslides
        /\ slides = last.nslides + 1)

\* an auto/auto placement met a deck whose slides (one at least) were all full
C4_Witness ==
    /\ Resolved /\ IsAutoAuto(last.placement)
    /\ last.nslides >= 1
    /\ \A s \in 1..last.nslides : Eligible \subseteq Marked(last.occ, s)
    /\ last.outcome = "inserted"
    /\ last.created

\* C5: a placement (of a valid image) naming slide s with position auto is always
\* resolved: to (s, nextAvailable(s)) when s exists and has a free eligible slot,
\* and by rule (1) when s is full or does not exist; the deck grows by one exactly
\* when rule (1) finds every existing slide full.
C5_SlideGiven ==
    (/\ mode = "insert"
     /\ last.outcome \notin {"none", "invalid_image"}
     /\ last.placement.slide_number # Auto
     /\ last.placement.position = None)
    => LET s == last.placement.slide_number IN
       /\ Resolved
       /\ IF s <= last.nslides /\ HasFree(last.occ, s)
          THEN LastPair = <<s, NextAvailable(last.occ, s)>> /\ slides = last.nslides
          ELSE /\ LastPair = SearchThenCreate(last.occ, last.nslides)
               /\ slides = (IF \E r \in 1..last.nslides : HasFree(last.occ, r)
                            THEN last.nslides ELSE last.nslides + 1)

\* Scenario C with both slides full: slide 3 is asked for in a deck of two full
\* slides, and slide 3 is created
C5_Witness ==
    /\ last.outcome = "inserted"
    /\ last.placement.slide_number = 3
    /\ last.placement.position = None
    /\ last.nslides = 2
    /\ \A s \in 1..2 : ~HasFree(last.occ, s)
    /\ LastPair = <<3, "bottom-left">>
    /\ slides = 3

\* C6: a placement naming an existing slide s and an eligible slot p resolves to
\* (s, p) when (s, p) is free, to (s, nextAvailable(s)) when it is occupied and s
\* has a free eligible slot, and by rule (1) when s is full; with only bottom-left
\* of slide 1 held, and held by the scan, (1, bottom-left) resolves to
\* (1, bottom-right).
C6_SlideAndSlotGiven ==
    /\ (/\ Resolved
        /\ last.placement.slide_number \in 1..last.nslides
        /\ last.placement.position \in Eligible)
       => LET s == last.placement.slide_number
              p == last.placement.position
          IN IF p \notin Marked(last.occ, s)
             THEN LastPair = <<s, p>> /\ slides = last.nslides
             ELSE IF HasFree(last.occ, s)
             THEN LastPair = <<s, NextAvailable(last.occ, s)>> /\ slides = last.nslides
             ELSE LastPair = SearchThenCreate(last.occ, last.nslides)
    /\ (/\ Resolved
        /\ last.nslides >= 1
        /\ last.placement.slide_number = 1
        /\ last.placement.position = "bottom-left"
        /\ <<1, "bottom-left">> \in seeded
        /\ Marked(last.occ, 1) \cap Eligible = {"bottom-left"})
       => LastPair = <<1, "bottom-right">>

\* Scenario B: the scan marked (1, bottom-left) only, the placement asked for it and
\* was inserted at (1, bottom-right)
C6_Witness ==
    /\ last.outcome = "inserted"
    /\ seeded = {<<1, "bottom-left">>}
    /\ last.occ = [k \in {1} |-> {"bottom-left"}]
    /\ last.placement.slide_number = 1
    /\ last.placement.position = "bottom-left"
    /\ LastPair = <<1, "bottom-right">>

\* C7 as stated: a center or custom placement keeps its mode, goes to its named
\* slide (slide 1 when the slide is auto), and leaves the tracker as it was.
C7_Bypass ==
    (/\ mode = "insert"
     /\ last.outcome = "inserted"
     /\ last.placement.position \in {"center", "custom"})
    => /\ last.position = last.placement.position
       /\ last.slide = (IF last.placement.slide_number = Auto
                        THEN 1 ELSE last.placement.slide_number)
       /\ occupied_positions = last.occ

\* the order of preference of the specification
Preference == <<"bottom-left", "bottom-right", "top-right">>

\* C8: the first three placements naming, one after the other, an existing slide
\* with no eligible slot occupied, with position auto, are inserted on that slide at
\* bottom-left, bottom-right and top-right, in this order.
C8_PreferenceOrder ==
    (mode = "insert" /\ slot_run.len \in 1..3)
    => LastPair = <<slot_run.slide, Preference[slot_run.len]>>

\* the third such placement has been inserted at top-right
C8_Witness ==
    /\ slot_run.len = 3
    /\ last.outcome = "inserted"
    /\ LastPair = <<slot_run.slide, "top-right">>

\* C9 as stated: once a placement is resolved to an eligible (slide, slot), the
\* pair is marked before the next placement is taken.
C9_AsStated ==
    (Resolved /\ last.position \in Eligible)
    => last.position \in Marked(occupied_positions, last.slide)

\* C9 amended: once a placement is resolved to an eligible (slide, slot) and its
\* picture is inserted, the pair is marked before the next placement is taken and
\* stays marked; generate_json_mapping marks the pair of every entry it appends.
C9_Visible ==
    /\ (mode = "insert" /\ last.outcome = "inserted" /\ last.position \in Eligible)
       => last.position \in Marked(occupied_positions, last.slide)
    /\ \A pr \in BagToSet(placed) : pr[2] \in Marked(occupied_positions, pr[1])
    /\ \A k \in 1..Len(json_entries) :
          json_entries[k].position
             \in Marked(occupied_positions, json_entries[k].slide_number)

\* a placement asked for the pair the placement before it was inserted at, found it
\* occupied and went elsewhere
C9_Witness ==
    /\ last.outcome = "inserted"
    /\ last.prev = "inserted"
    /\ last.placement.slide_number # Auto
    /\ last.placement.position \in Eligible
    /\ <<last.placement.slide_number, last.placement.position>> \in BagToSet(placed)
    /\ <<last.placement.slide_number, last.placement.position>> \notin seeded
    /\ LastPair # <<last.placement.slide_number, last.placement.position>>

\* C10: a placement is skipped for its image number exactly when the number is
\* missing, below 1 or above the number of images; the skip leaves the tracker, the
\* deck and the tally as they were, and the loop goes on to the next placement.
C10_State ==
    (mode = "insert" /\ processed > 0)
    => /\ last.outcome = "invalid_image"
            <=> last.placement.image_number \notin 1..NumImages
       /\ last.outcome = "invalid_image"
            => /\ occupied_positions = last.occ
               /\ slides = last.nslides

C10_Step ==
    (last'.outcome = "invalid_image" /\ processed' = processed + 1)
    => /\ UNCHANGED <<occupied_positions, slides, success_count, placed>>
       /\ pc' = "loop"

C10_InvalidImageSkipped == []C10_State /\ [][C10_Step]_vars

\* a placement was skipped for its image number and the next one was inserted
C10_Witness ==
    /\ last.prev = "invalid_image"
    /\ last.outcome = "inserted"
    /\ processed >= 2

\* C11 as stated: a placement (of a valid image) whose slide number is beyond the
\* deck it meets is skipped: nothing is inserted, the tracker and the deck stay as
\* they were.
C11_AsStated ==
    (/\ mode = "insert" /\ processed > 0
     /\ last.placement.image_number \in 1..NumImages
     /\ last.placement.slide_number # Auto
     /\ last.placement.slide_number > last.nslides)
    => /\ last.outcome = "invalid_slide"
       /\ occupied_positions = last.occ
       /\ slides = last.nslides

\* C11 amended: a placement (of a valid image) is skipped for its slide number
\* exactly when it names a position and a slide beyond the deck it meets; the skip
\* inserts nothing, leaves the tracker, the deck and the tally as they were, and the
\* loop goes on to the next placement.
C11_State ==
    (mode = "insert" /\ processed > 0)
    => /\ last.outcome = "invalid_slide"
            <=> /\ last.placement.image_number \in 1..NumImages
                /\ last.placement.slide_number # Auto
                /\ last.placement.position # None
                /\ last.placement.slide_number > last.nslides
       /\ last.outcome = "invalid_slide"
            => /\ occupied_positions = last.occ
               /\ slides = last.nslides
               /\ ~last.created

C11_Step ==
    (last'.outcome = "invalid_slide" /\ processed' = processed + 1)
    => /\ UNCHANGED <<occupied_positions, slides, success_count, placed>>
       /\ pc' = "loop"

C11_InvalidSlideSkipped == []C11_State /\ [][C11_Step]_vars

\* a placement was skipped for its slide number and the next one was inserted
C11_Witness ==
    /\ last.prev = "invalid_slide"
    /\ last.outcome = "inserted"
    /\ processed >= 2

\* the pair the last entry of the output names
LastEntryPair(entries) ==
    <<entries[Len(entries)].slide_number, entries[Len(entries)].position>>

\* C12: the fallback is never exhausted. A placement of process_mappings that needs
\* a slot chosen for it (slide auto, position auto, or the pair asked for occupied)
\* is resolved to an eligible slot that was free on a slide of the deck. In
\* generate_json_mapping every image taken appends exactly one entry, naming an
\* eligible slot that was free (so 'Could not assign position' never happens), and
\* _find_or_create_slide stops at the first slide after the current one that is not
\* full, which is at most one past the slides the tracker knows.
C12_State ==
    (/\ mode = "insert" /\ processed > 0
     /\ last.placement.image_number \in 1..NumImages
     /\ \/ last.placement.slide_number = Auto
        \/ last.placement.position = None
        \/ last.placement.position
              \in Marked(last.occ, last.placement.slide_number))
    => /\ Resolved
       /\ last.position \in Eligible
       /\ last.position \notin Marked(last.occ, last.slide)
       /\ last.slide \in 1..slides

C12_Step ==
    (mode = "generate" /\ gen_left' = gen_left - 1)
    => /\ Len(json_entries') = Len(json_entries) + 1
       /\ SubSeq(json_entries', 1, Len(json_entries)) = json_entries
       /\ LastEntryPair(json_entries')[2] \in Eligible
       /\ LastEntryPair(json_entries')[2]
             \notin Marked(occupied_positions, LastEntryPair(json_entries')[1])
       /\ LastEntryPair(json_entries')[1] = gen_slide'
       /\ gen_slide' >= gen_slide
       /\ \A s \in gen_slide..(gen_slide' - 1) :
             Eligible \subseteq Marked(occupied_positions, s)
       /\ gen_slide' - gen_slide <= Cardinality(DOMAIN occupied_positions)

C12_FallbackNeverExhausted == []C12_State /\ [][C12_Step]_vars

\* the generator found the slide of its mapping full and the slide after it full,
\* and put the image on the slide after these two
C12_Witness ==
    /\ mode = "generate"
    /\ Len(json_entries) >= 2
    /\ json_entries[Len(json_entries)].slide_number
          = json_entries[Len(json_entries) - 1].slide_number + 2
    /\ Eligible \subseteq Marked(occupied_positions,
                                 json_entries[Len(json_entries) - 1].slide_number)
    /\ Eligible \subseteq Marked(occupied_positions,
                                 json_entries[Len(json_entries) - 1].slide_number + 1)

\* C13: the deck never shrinks and a placement changes its length by 0 or by 1; a
\* slide is appended only when every slide 1..N of the deck the placement met holds
\* the three eligible slots, and the placement is then resolved to slide N + 1, the
\* new length of the deck.
C13_State ==
    (mode = "insert" /\ processed > 0)
    => /\ slides \in {last.nslides, last.nslides + 1}
       /\ last.created <=> slides = last.nslides + 1
       /\ last.created
            => /\ \A s \in 1..last.nslides : Eligible \subseteq Marked(last.occ, s)
               /\ last.slide = last.nslides + 1
               /\ last.slide = slides

C13_Step ==
    /\ slides' \in {slides, slides + 1}
    /\ slides' = slides + 1 => processed' = processed + 1

C13_DeckEvolution == []C13_State /\ [][C13_Step]_vars

\* a placement asked for an eligible slot of a full slide in a deck whose slides
\* were all full, and a slide was appended for it
C13_Witness ==
    /\ last.created
    /\ last.nslides >= 1
    /\ last.placement.slide_number \in 1..last.nslides
    /\ last.placement.position \in Eligible
    /\ last.slide = last.nslides + 1
    /\ slides = last.nslides + 1

\* C14 as stated: in every state the set the tracker holds for a slide is a subset
\* of the three eligible slots; top-left, center and custom are never in it.
C14_Shape ==
    \A s \in DOMAIN occupied_positions : occupied_positions[s] \subseteq Eligible

\* the method called last was get_next_available_position
LastNext == last.op = "next"

\* C15: in both classes get_next_available_position returns the first of
\* bottom-left, bottom-right, top-right that is not marked on the slide, and None
\* exactly when the three are marked; a second call for the same slide, no
\* occupy_position between the two, returns what the first returned, and no call
\* other than occupy_position changes what it would return for any slide.
C15_State ==
    LastNext =>
       /\ last.next = NextAvailable(occupied_positions, last.slide)
       /\ last.next = None
             <=> Eligible \subseteq Marked(occupied_positions, last.slide)
       /\ last.next # None
             => /\ last.next \in Eligible
                /\ last.next \notin Marked(occupied_positions, last.slide)

C15_Step ==
    /\ (LastNext /\ last'.op = "next" /\ last'.slide = last.slide)
          => last'.next = last.next
    /\ last'.op # "occupy"
          => \A s \in TrackSlides :
                /\ get_next_available_position(occupied_positions', s)
                      = get_next_available_position(occupied_positions, s)
                /\ PM_get_next_available_position(occupied_positions', s).position
                      = PM_get_next_available_position(occupied_positions, s).position

C15_NextAvailable == []C15_State /\ [][C15_Step]_vars

\* the tracker was asked about a slide with top-left, bottom-left and bottom-right
\* marked and answered top-right
C15_Witness ==
    /\ mode = "tracker"
    /\ LastNext
    /\ Marked(occupied_positions, last.slide)
          = {"top-left", "bottom-left", "bottom-right"}
    /\ last.next = "top-right"

\* C16 as stated: get_next_available_position and is_slide_full leave the dict as
\* it was, so that a slide number is a key of the dict only once a position has
\* been marked on it, never because the slide was asked about.
C16_AsStated ==
    \A s \in DOMAIN occupied_positions : occupied_positions[s] # {}

\* the method called last was occupy_position, for a pair that was marked already
LastOccupyAgain == last.op = "occupy" /\ last.was

\* C17: in both classes occupy_position always returns with the pair marked, and
\* for a pair that is marked already it leaves the dict as it was, and with it
\* what get_available_count returns for every slide; get_available_count returns
\* 3 less the number of positions marked on the slide, which is 3 for a slide that
\* is not a key of the dict.
C17_State ==
    /\ last.op = "occupy" => last.position \in Marked(occupied_positions, last.slide)
    /\ last.op = "count" =>
          /\ last.count
                = 3 - Cardinality(Marked(occupied_positions, last.slide))
          /\ last.count \in 0..3
          /\ last.slide \notin DOMAIN occupied_positions => last.count = 3

C17_Step ==
    /\ (last'.op = "occupy" /\ last'.was) =>
          /\ occupied_positions' = occupied_positions
          /\ \A s \in TrackSlides :
                PM_get_available_count(occupied_positions', s)
                   = PM_get_available_count(occupied_positions, s)
    /\ (last'.op = "occupy" /\ ~last'.was) =>
          /\ DOMAIN occupied_positions' = DOMAIN occupied_positions \cup {last'.slide}
          /\ \A s \in DOMAIN occupied_positions' :
                occupied_positions'[s]
                   = IF s = last'.slide
                     THEN Marked(occupied_positions, s) \cup {last'.position}
                     ELSE occupied_positions[s]

C17_OccupyIdempotent == []C17_State /\ [][C17_Step]_vars

\* the manager was told to mark a pair that was marked already, on a slide with two
\* positions marked
C17_Witness ==
    /\ mode = "manager"
    /\ LastOccupyAgain
    /\ Cardinality(Marked(occupied_positions, last.slide)) = 2
    /\ PM_get_available_count(occupied_positions, last.slide) = 1

\* the quadrant of a corner by the midpoints of the 10 x 7.5 canvas, 5.0 and 3.75
\* inches, in tenths of an inch (top < 37.5 is 2 * top < 75)
QuadrantByMidpoints(left, top) ==
    IF left < 50 /\ 2 * top < 75 THEN "top-left"
    ELSE IF left >= 50 /\ 2 * top < 75 THEN "top-right"
    ELSE IF left < 50 /\ 2 * top >= 75 THEN "bottom-left"
    ELSE "bottom-right"

\* C18 as stated: a picture is given the quadrant its (left, top) corner has with
\* respect to the midpoints 5.0 and 3.75 of the canvas, the midpoint itself counted
\* right and bottom, and never center or custom.
C18_AsStated ==
    (mode = "classify" /\ pc = "classified")
    => /\ last.position = QuadrantByMidpoints(last.left, last.top)
       /\ last.position \notin {"center", "custom"}

\* the tracker without the top-left records of the scan
WithoutScannedTopLeft(occ) ==
    [k \in DOMAIN occ |->
        IF <<k, "top-left">> \in seeded THEN occ[k] \ {"top-left"} ELSE occ[k]]

\* C19 as stated: the top-left records of the scan block nothing: the (slide,
\* position) a placement is resolved to is the one it would be resolved to had the
\* scan recorded no top-left on any slide.
C19_AsStated ==
    (mode = "insert" /\ last.outcome = "inserted")
    => LET without == assign(WithoutScannedTopLeft(last.occ), last.nslides,
                             last.placement)
       IN /\ last.slide = without.slide
          /\ last.position = without.position

\* the field of column i of a record, blank when the record has fewer fields
Field(f, i) == IF i <= Len(f) THEN f[i] ELSE ""

\* the texts that denote an integer and a real number, and what they denote (reals
\* in tenths)
IntegerTexts == {"1"}
RealTexts == {"1", "1.5"}
NumberDenoted(t) == IF t = "1.5" THEN 15 ELSE 10

\* a field that is given and is not of the kind its column asks for
Unparsable(f, i) ==
    /\ Field(f, i) # ""
    /\ CASE i = 1 -> Field(f, i) \notin IntegerTexts
         [] i = 2 -> Field(f, i) \notin IntegerTexts \cup {"auto"}
         [] i = 3 -> Field(f, i) \notin Position \cup {"auto"}
         [] OTHER -> Field(f, i) \notin RealTexts

Length(f, i) == IF Field(f, i) = "" THEN NoLength ELSE NumberDenoted(Field(f, i))

\* the record of the fields f
RecordOf(f) ==
    [image_number |-> IF Field(f, 1) = "" THEN NoImage ELSE 1,
     slide_number |-> IF Field(f, 2) \in {"", "auto"} THEN Auto ELSE 1,
     position |-> IF Field(f, 3) \in {"", "auto"} THEN None ELSE Field(f, 3),
     left |-> Length(f, 4), top |-> Length(f, 5),
     width |-> Length(f, 6), height |-> Length(f, 7)]

\* C20: _parse_txt_mapping never aborts on a line. A line one of whose fields is
\* given and cannot be parsed (as in abc:1:bottom-left) leaves the list as it was,
\* and so do comment lines and blank lines; every other line appends its record at
\* the end of the list, so that the list returned holds the records of these
\* other lines, and only them, in the order of the file.
C20_State ==
    mode = "parse_txt"
    => /\ Len(placements) <= line.num
       /\ line.did = "appended" => placements[Len(placements)] = RecordOf(line.fields)
       /\ (line.kind = "record" /\ line.text = <<"abc", ":", "1", ":", "bottom-left">>)
             => line.did = "skipped"

C20_Step ==
    (mode = "parse_txt" /\ line'.num = line.num + 1)
    => /\ pc' = "lines"
       /\ IF \/ line'.kind \in {"blank", "comment"}
             \/ \E i \in 1..7 : Unparsable(line'.fields, i)
          THEN placements' = placements /\ line'.did # "appended"
          ELSE placements' = Append(placements, RecordOf(line'.fields))

C20_LinePartialFailure == []C20_State /\ [][C20_Step]_vars

\* the line before the last had a field that could not be parsed and was skipped,
\* and the last line, a record with its four fields padded with blanks, was
\* appended
C20_Witness ==
    /\ mode = "parse_txt"
    /\ line.num = 2
    /\ line.prev = "skipped"
    /\ line.did = "appended"
    /\ line.text = <<" ", "1", " ", ":", " ", "1", " ", ":", " ", "bottom-left", " ",
                     ":", " ", "1.5", " ">>
    /\ placements = <<[image_number |-> 1, slide_number |-> 1,
                       position |-> "bottom-left", left |-> 15, top |-> NoLength,
                       width |-> NoLength, height |-> NoLength]>>

\* C21 as stated: a line of the text form whose image number field is blank is
\* skipped: it adds no placement to the list _parse_txt_mapping returns.
C21_AsStated ==
    (/\ mode = "parse_txt"
     /\ line.kind = "record"
     /\ Field(line.fields, 1) = "")
    => (line.did = "skipped" /\ Len(placements) < line.num)

\* the record of the mapping file read last
LastRecord == line.records[Len(line.records)]

\* C22 as stated: in each of the three forms a record whose slide field is absent
\* or blank is read as slide auto, and one whose position field is absent or
\* blank as position auto, without error (the other fields being such as can be
\* parsed).
C22_AsStated ==
    (/\ mode \in {"run_json", "run_csv", "run_txt"}
     /\ pc \in {"parse", "returned_false"}
     /\ line.num > 0
     /\ \A i \in 1..3 : ~Unparsable(LastRecord, i))
    => /\ Field(LastRecord, 2) = ""
          => /\ line.did = "appended"
             /\ placements[Len(placements)].slide_number = Auto
       /\ Field(LastRecord, 3) = ""
          => /\ line.did = "appended"
             /\ placements[Len(placements)].position = None

\* C23 as stated: for a file whose records can all be parsed (every field blank,
\* absent or of the kind its column asks for), the three parsers return the same
\* list of placements.
C23_AsStated ==
    (/\ mode \in {"run_json", "run_csv", "run_txt"}
     /\ pc = "loop" /\ processed = 0
     /\ Len(line.records) >= 1
     /\ \A k \in 1..Len(line.records) :
           \A i \in 1..3 : ~Unparsable(line.records[k], i))
    => /\ parse_records("json", line.records, 1)
             = parse_records("txt", line.records, 1)
       /\ parse_records("csv", line.records, 1)
             = parse_records("txt", line.records, 1)
       /\ placements = parse_records("txt", line.records, 1).placements

\* a record of the file has a field that is given and cannot be parsed
SomeUnparsable ==
    \E k \in 1..Len(line.records) : \E i \in 1..3 : Unparsable(line.records[k], i)

\* C24 as stated: in the JSON and CSV forms a record that cannot be parsed ends
\* the run before any placement is resolved: no placement is resolved, no slide is
\* appended, no picture is inserted, no position is marked and nothing is saved.
C24_AsStated ==
    (mode \in {"run_json", "run_csv"} /\ SomeUnparsable)
    => /\ last.outcome \notin {"inserted", "insert_failed"}
       /\ slides = 1
       /\ success_count = 0
       /\ placed = EmptyBag
       /\ occupied_positions = EmptyDict
       /\ pc # "saved"

\* C25 as stated: once the mapping file is parsed, no placement ends the batch:
\* each placement taken is inserted or skipped, and the loop stays able to take the
\* next one or to save.
C25_AsStated ==
    (mode \in {"run_json", "run_csv", "run_txt"} /\ processed > 0)
    => /\ pc \in {"loop", "saved"}
       /\ last.outcome \in {"inserted", "insert_failed", "invalid_image",
                            "invalid_slide"}

\* C26 as stated: a picture inserted at position custom has the left the placement
\* gives, whatever its value (0 too), and is 1 in from the left edge only when
\* the placement gives none; the same for top; it has the width and height the
\* placement gives when it gives both (as positive lengths), and the size of the
\* image when it gives neither.
C26_AsStated ==
    (/\ mode = "insert_image" /\ pc = "returned"
     /\ last.success
     /\ last.position = "custom")
    => /\ last.picture.left = (IF last.left # NoLength THEN 2 * last.left ELSE 20)
       /\ last.picture.top = (IF last.top # NoLength THEN 2 * last.top ELSE 20)
       /\ (last.width > 0 /\ last.height > 0)
             => /\ last.picture.width = 2 * last.width
                /\ last.picture.height = 2 * last.height
       /\ (last.width = NoLength /\ last.height = NoLength)
             => /\ last.picture.width = last.natural[1]
                /\ last.picture.height = last.natural[2]

\* C27 as stated: a picture inserted at one of the three eligible positions is at
\* the anchor of the position and has the size of the image: left, top, width and
\* height of the placement change nothing.
C27_AsStated ==
    (/\ mode = "insert_image" /\ pc = "returned"
     /\ last.success
     /\ last.position \in Eligible)
    => last.picture =
          [left |-> IF last.position = "bottom-left" THEN 10 ELSE 120,
           top |-> IF last.position = "top-right" THEN 10 ELSE 100,
           width |-> last.natural[1],
           height |-> last.natural[2]]

\* C28: a placement with slide auto and a position given is resolved as the
\* placement with slide auto and no position is: the position given is not used,
\* the placement goes to the first slide with a free eligible slot at that slide's
\* next available slot, or, when no slide has one, to a new slide at bottom-left.
C28_AutoSlideOverridesSlot ==
    (/\ Resolved
     /\ last.placement.slide_number = Auto
     /\ last.placement.position # None)
    => /\ LastPair = SearchThenCreate(last.occ, last.nslides)
       /\ last.created <=> ~(\E s \in 1..last.nslides : HasFree(last.occ, s))
       /\ slides = last.nslides + (IF last.created THEN 1 ELSE 0)
       /\ LET auto_auto == [last.placement EXCEPT !.position = None]
              a == assign(last.occ, last.nslides, auto_auto)
          IN LastPair = <<a.slide, a.position>> /\ slides = a.nslides

\* a placement asking for top-right on any slide was inserted at another position
C28_Witness ==
    /\ mode = "insert"
    /\ last.outcome = "inserted"
    /\ last.placement.slide_number = Auto
    /\ last.placement.position = "top-right"
    /\ "top-right" \notin Marked(last.occ, last.slide)
    /\ last.position # "top-right"

\* C29: once the scan is over, the tracker holds as many (slide, position) pairs
\* as the scan marked plus success_count; an inserted placement marks one pair,
\* its own, which was not marked before, whatever its position, and adds one to
\* success_count; a skipped placement and a failed insertion mark nothing and
\* leave success_count as it was.
C29_State ==
    (mode = "insert" /\ pc # "scan")
    => /\ Cardinality(Pairs(occupied_positions)) = Cardinality(seeded) + success_count
       /\ seeded \subseteq Pairs(occupied_positions)

C29_Step ==
    (mode = "insert" /\ processed' = processed + 1)
    => IF last'.outcome = "inserted"
       THEN /\ <<last'.slide, last'.position>> \notin Pairs(occupied_positions)
            /\ Pairs(occupied_positions')
                  = Pairs(occupied_positions) \cup {<<last'.slide, last'.position>>}
            /\ success_count' = success_count + 1
       ELSE UNCHANGED <<occupied_positions, success_count>>

C29_TallyAccounting == []C29_State /\ [][C29_Step]_vars

\* after a failed insertion a picture was inserted at center, on a deck where the
\* scan had marked a position
C29_Witness ==
    /\ mode = "insert"
    /\ seeded # {}
    /\ last.prev = "insert_failed"
    /\ last.outcome = "inserted"
    /\ last.position = "center"
    /\ success_count = 1

\* the slide numbers of the entries written for the mapping in hand
MappingSlides ==
    [i \in 1..(Len(json_entries) - gen_mapping.entries_before) |->
        json_entries[gen_mapping.entries_before + i].slide_number]

\* C30: when the generator finds the slide it is on full, the image goes to the
\* smallest slide number above it that is not full, and the images after it go on
\* from that slide; when the slide is not full the image stays on it. So the slide
\* numbers of the entries of one mapping never decrease and are never below the
\* slide number of the mapping.
C30_State ==
    mode = "generate"
    => /\ gen_slide >= gen_mapping.slide_number
       /\ \A i \in DOMAIN MappingSlides :
             /\ MappingSlides[i] >= gen_mapping.slide_number
             /\ MappingSlides[i] <= gen_slide
             /\ \A j \in DOMAIN MappingSlides : i < j => MappingSlides[i] <= MappingSlides[j]

C30_Step ==
    (mode = "generate" /\ gen_left' = gen_left - 1)
    => /\ IF HasFree(occupied_positions, gen_slide)
          THEN gen_slide' = gen_slide
          ELSE /\ gen_slide' > gen_slide
               /\ HasFree(occupied_positions, gen_slide')
               /\ \A q \in (gen_slide + 1)..(gen_slide' - 1) :
                     ~HasFree(occupied_positions, q)
       /\ json_entries'[Len(json_entries')].slide_number = gen_slide'
       /\ gen_mapping' = gen_mapping

C30_UpwardOnlySpill == []C30_State /\ [][C30_Step]_vars

\* a mapping put its first image on its own slide, found the slide full for the
\* second, moved it to a higher slide and put the third on that slide too
C30_Witness ==
    /\ mode = "generate"
    /\ Len(MappingSlides) >= 3
    /\ MappingSlides[1] = gen_mapping.slide_number
    /\ MappingSlides[2] > MappingSlides[1]
    /\ MappingSlides[3] = MappingSlides[2]
    /\ gen_slide = MappingSlides[3]

====
